---- MODULE Spec2Model ----
(***************************************************************************)
(* Model of strapi-content-type-to-ts (src/src/generate-content-types.ts). *)
(*                                                                         *)
(* A JavaScript string is a sequence of tokens: a variable part (a name,   *)
(* an identifier) is spelled one character per token, a literal of the     *)
(* source is one token.  Concatenation is \o, '' is <<>>.                  *)
(*                                                                         *)
(* Input domain: schema documents that follow the Strapi shapes the code   *)
(* casts to (ContentTypeSchema, Attribute and its refinements): an info    *)
(* object, an attributes object keyed by identifiers, and the fields of    *)
(* each attribute kind present.  Files that are not JSON at all are part   *)
(* of the domain.                                                          *)
(***************************************************************************)
EXTENDS Integers, Sequences, FiniteSets, TLC

VARIABLES
    disk,             \* the file system the process runs on (never changes)
    options,          \* program.opts(): the command line
    pc,               \* position of the process
    exitCode,         \* -1 while running, else the process's exit code
    outFile,          \* "undefined" or "open": the write stream of --out
    apiFiles,         \* result of getApiFiles()
    componentsFiles,  \* result of getComponentsFiles()
    interfaces,       \* per file, the promise of the map callback
    written,          \* blocks written to the output sink, in order
    stderr,           \* console.error diagnostics, in order
    mAttr,            \* type-mapper harness: the attribute descriptor
    mOut              \* type-mapper harness: result of getPropertyType

vars == <<disk, options, pc, exitCode, outFile, apiFiles, componentsFiles,
          interfaces, written, stderr, mAttr, mOut>>

(***************************************************************************)
(* Bounds of the model.                                                    *)
(***************************************************************************)
MaxApiFiles == 2
MaxComponentFiles == 1

(***************************************************************************)
(* Strings.                                                                *)
(***************************************************************************)
\* the value undefined where the code handles a string | undefined
undefined == << "<undefined>" >>

Truthy(s) == s # undefined /\ s # <<>>

\* String.prototype.toUpperCase on one character of the model's alphabet
toUpperCase(c) ==
    CASE c = "a" -> "A"
      [] c = "b" -> "B"
      [] c = "c" -> "C"
      [] OTHER   -> c

RECURSIVE Flatten(_)
\* concatenation of a sequence of strings
Flatten(parts) ==
    IF parts = <<>> THEN <<>> ELSE Head(parts) \o Flatten(Tail(parts))

RECURSIVE Join(_, _)
\* Array.prototype.join
Join(parts, sep) ==
    IF parts = <<>> THEN <<>>
    ELSE IF Len(parts) = 1 THEN parts[1]
    ELSE parts[1] \o sep \o Join(Tail(parts), sep)

RECURSIVE SplitOn(_, _, _)
\* String.prototype.split on a set of one-character separators; cur is the
\* piece being read
SplitOn(s, seps, cur) ==
    IF s = <<>> THEN << cur >>
    ELSE IF Head(s) \in seps THEN << cur >> \o SplitOn(Tail(s), seps, <<>>)
    ELSE SplitOn(Tail(s), seps, Append(cur, Head(s)))

capitalizeFirstLetter(string) ==
    IF Truthy(string) THEN << toUpperCase(string[1]) >> \o Tail(string)
    ELSE string

toComponentType(componentName) ==
    IF Truthy(componentName)
    THEN LET pieces == SplitOn(componentName, {".", "-"}, <<>>)
         IN  Flatten([k \in 1..Len(pieces) |-> capitalizeFirstLetter(pieces[k])])
    ELSE componentName

\* the backtick character
backtick == "<backtick>"

\* ${x} of a string | undefined
Interpolate(s) == IF s = undefined THEN << "undefined" >> ELSE s

(***************************************************************************)
(* Paths: an absolute flag and the segments; a segment is a string.        *)
(***************************************************************************)
Abs(segs) == [abs |-> TRUE, segs |-> segs]
Rel(segs) == [abs |-> FALSE, segs |-> segs]
NoPath == Rel(<<>>)

\* process.cwd()
cwd == Abs(<< <<"work">> >>)

pathIsAbsolute(p) == p.abs

\* path.join / the ./${dir} prefix: the segments follow one another
pathJoin(a, b) == [abs |-> a.abs, segs |-> a.segs \o b.segs]

\* path.resolve(a, b): right to left until an absolute path is built, the
\* working directory last
pathResolve(a, b) ==
    IF b.abs THEN b
    ELSE IF a.abs THEN Abs(a.segs \o b.segs)
    ELSE Abs(cwd.segs \o a.segs \o b.segs)

(***************************************************************************)
(* Diagnostics written by console.error.                                   *)
(***************************************************************************)
Diag(kind, subject, path) == [kind |-> kind, subject |-> subject, path |-> path]

(***************************************************************************)
(* Custom field extension modules (README, "Handling custom fields").      *)
(***************************************************************************)
NoOptions == [defined |-> FALSE, value |-> <<>>]
Options(v) == [defined |-> TRUE, value |-> v]

Threw == [ok |-> FALSE, value |-> <<>>]
Returned(v) == [ok |-> TRUE, value |-> v]

\* custom-field/ckeditor5.CKEditor.js
ckeditor5(opts) == Returned(<< "string" >>)

\* custom-field/multi-select.multi-select.js; options.map throws a TypeError
\* when the attribute has no options
multiSelect(opts) ==
    IF ~opts.defined THEN Threw
    ELSE LET lit(v) == LET parts == SplitOn(v, {":"}, <<>>)
                           label == parts[1]
                           value == IF Len(parts) >= 2 THEN parts[2] ELSE undefined
                       IN  << backtick >> \o (IF Truthy(value) THEN value ELSE label) \o << backtick >>
         IN  Returned(<< "(" >>
                      \o Join([k \in 1..Len(opts.value) |-> lit(opts.value[k])], << " | " >>)
                      \o << ")[]" >>)

\* calling what a module exports; a module that exports no function makes
\* the call throw a TypeError
CallExport(exports, opts) ==
    CASE exports = "ckeditor5"   -> ckeditor5(opts)
      [] exports = "multiSelect" -> multiSelect(opts)
      [] OTHER                   -> Threw

\* (await import(path))(options): the load rejects when no module is at path
ImportAndCall(path, opts) ==
    IF \E m \in disk.modules : m.path = path
    THEN CallExport((CHOOSE m \in disk.modules : m.path = path).exports, opts)
    ELSE Threw

(***************************************************************************)
(* getPropertyType                                                         *)
(***************************************************************************)
RelationMany ==
    << "number[] | { set: number[] | { id: number }[] } | { disconnect?: number[] | { id: number }[], connect?: number[] | { id: number, position?: { before?: number, after?: number, start?: boolean, end?: boolean } }[] }" >>
RelationOne ==
    << "number | { set: [number] | [{ id: number }] } | { disconnect?: [number] | [{ id: number }], connect?: [number] | [{ id: number, position?: { before?: number, after?: number, start?: boolean, end?: boolean } }] }" >>

StripPluginPrefixNever(id) == id

\* valueCustomField.customField.replace(/^plugin::/, '')
StripPluginPrefix(id) ==
    IF id # <<>> /\ Head(id) = "plugin::" THEN Tail(id) ELSE id

customFieldPluginPathCwdOnly(dir, customField) ==
    Abs(cwd.segs \o dir.segs \o << customField \o << ".js" >> >>)

customFieldPluginPath(dir, customField) ==
    pathResolve(IF pathIsAbsolute(dir) THEN dir ELSE pathResolve(cwd, pathJoin(Rel(<<>>), dir)),
                Rel(<< customField \o << ".js" >> >>))

Typed(type) == [type |-> type, diags |-> <<>>]

customFieldTypeNoCatch(a) ==
    LET customField == StripPluginPrefix(a.customField)
        path == customFieldPluginPath(options.customFieldsExtensionDirectory, customField)
    IN  Typed(ImportAndCall(path, a.options).value)

\* case 'customField'
customFieldType(a) ==
    LET customField == StripPluginPrefix(a.customField)
        path == customFieldPluginPath(options.customFieldsExtensionDirectory, customField)
        r == ImportAndCall(path, a.options)
    IN  IF r.ok THEN Typed(r.value)
        ELSE [type  |-> << "any //FIXME: missing custom field plugin for " >> \o customField,
              diags |-> << Diag("Missing custom field plugin", customField, path) >>]

\* case 'component'
componentType(a) ==
    Typed(Interpolate(toComponentType(a.component))
          \o (IF a.repeatable THEN << "[]" >> ELSE <<>>))

\* case 'dynamiczone'
dynamiczoneType(a) ==
    Typed(<< "(" >>
          \o Join([k \in 1..Len(a.components) |-> Interpolate(toComponentType(a.components[k]))],
                  << " | " >>)
          \o << ")[]" >>)

\* case 'enumeration'
enumerationType(a) ==
    Typed(<< "(" >>
          \o Join([k \in 1..Len(a.enum) |-> << backtick >> \o a.enum[k] \o << backtick >>], << " | " >>)
          \o << ")" >>)

\* default:
defaultType(a) ==
    [type |-> << "any" >>, diags |-> << Diag("Type not handled", << a.type >>, NoPath) >>]

getPropertyType(schemaAttribute) ==
    LET t == schemaAttribute.type
    IN  CASE t \in {"integer", "decimal", "biginteger", "float"} -> Typed(<< "number" >>)
          [] t \in {"string", "text", "email", "richtext", "password", "uid", "date", "time"}
               -> Typed(<< "string" >>)
          [] t = "datetime"    -> Typed(<< "Date" >>)
          [] t = "boolean"     -> Typed(<< "boolean" >>)
          [] t = "enumeration" -> enumerationType(schemaAttribute)
          [] t = "relation"    ->
               Typed(IF schemaAttribute.relation \in {"oneToMany", "manyToMany"}
                     THEN RelationMany ELSE RelationOne)
          [] t = "media"       ->
               Typed(IF schemaAttribute.multiple THEN << "{ id: number }[]" >> ELSE << "number" >>)
          [] t = "component"   -> componentType(schemaAttribute)
          [] t = "json"        -> Typed(<< "any" >>)
          [] t = "dynamiczone" -> dynamiczoneType(schemaAttribute)
          [] t = "customField" -> customFieldType(schemaAttribute)
          [] OTHER             -> defaultType(schemaAttribute)

(***************************************************************************)
(* computeInterfaces: the name of a schema's interface.                    *)
(***************************************************************************)
Last(s) == s[Len(s)]

\* index of the last ".json" in a string, 0 when there is none
LastJson(s) == LET at == {k \in 1..Len(s) : s[k] = ".json"}
               IN  IF at = {} THEN 0 ELSE CHOOSE k \in at : \A l \in at : l <= k

\* /components\/([^\/]*)\/(.*)\.json/.exec(file) || []
\* leftmost directory whose name ends in "components", followed by one
\* segment (the category) and a remainder that holds ".json"
ComponentsExec(file) ==
    LET segs == file.segs
        rest(i) == Join(SubSeq(segs, i + 2, Len(segs)), << "/" >>)
        at == {i \in 1..(Len(segs) - 2) :
                 Last(segs[i]) = "components" /\ LastJson(rest(i)) > 0}
    IN  IF at = {} THEN [category |-> undefined, name |-> undefined]
        ELSE LET i == CHOOSE k \in at : \A l \in at : k <= l
             IN  [category |-> segs[i + 1],
                  name     |-> SubSeq(rest(i), 1, LastJson(rest(i)) - 1)]

interfaceNameAnonymous(file, schema) ==
    LET m == ComponentsExec(file)
    IN  IF Truthy(schema.info.singularName) THEN toComponentType(schema.info.singularName)
        ELSE IF Truthy(m.category) /\ Truthy(m.name)
             THEN Interpolate(capitalizeFirstLetter(m.category))
                  \o Interpolate(toComponentType(m.name))
             ELSE << "undefined" >>

\* lines 62-72, the value
interfaceName(file, schema) ==
    LET m == ComponentsExec(file)
    IN  IF Truthy(schema.info.singularName) THEN toComponentType(schema.info.singularName)
        ELSE IF Truthy(m.category) /\ Truthy(m.name)
             THEN Interpolate(capitalizeFirstLetter(m.category))
                  \o Interpolate(toComponentType(m.name))
             ELSE <<>>

\* lines 62-72, the console.error of the last branch
interfaceNameDiags(file, schema) ==
    LET m == ComponentsExec(file)
    IN  IF Truthy(schema.info.singularName) \/ (Truthy(m.category) /\ Truthy(m.name))
        THEN <<>>
        ELSE << Diag("Unexpected schema", <<>>, file) >>

\* lines 79-82
implementedInterfaces(schema) ==
    IF schema.options.present /\ schema.options.draftAndPublish
    THEN << << "DraftAndPublish" >> >>
    ELSE <<>>

\* Object.entries(schema.attributes): the keys are identifiers (none is an
\* array index), so the entries come in the order the document declares them
ObjectEntries(attributes) == attributes

\* fs.readFileSync(file) and JSON.parse of it
ReadFile(file) ==
    CHOOSE f \in {disk.api[k] : k \in 1..Len(disk.api)}
                 \cup {disk.components[k] : k \in 1..Len(disk.components)} : f.path = file

\* the map callback of computeInterfaces up to its await: the property of a
\* custom field is left unresolved, its module being loaded
StartFile(file) ==
    LET f == ReadFile(file)
        entries == ObjectEntries(f.schema.attributes)
        prop(e) == [name     |-> e.name,
                    required |-> e.attr.required,
                    attr     |-> e.attr,
                    resolved |-> e.attr.type # "customField",
                    type     |-> IF e.attr.type # "customField"
                                 THEN getPropertyType(e.attr).type ELSE <<>>]
        properties == [k \in 1..Len(entries) |-> prop(entries[k])]
    IN  IF ~f.parseable
        THEN [state |-> "rejected", interfaceName |-> <<>>,
              implementedInterfaces |-> <<>>, properties |-> <<>>]
        ELSE [state |-> IF \A k \in 1..Len(properties) : properties[k].resolved
                        THEN "fulfilled" ELSE "pending",
              interfaceName |-> interfaceName(file, f.schema),
              implementedInterfaces |-> implementedInterfaces(f.schema),
              properties |-> properties]

\* what the synchronous part of the callback writes to console.error
StartFileDiags(file) ==
    LET f == ReadFile(file)
        entries == ObjectEntries(f.schema.attributes)
    IN  IF ~f.parseable THEN <<>>
        ELSE interfaceNameDiags(file, f.schema)
             \o Flatten([k \in 1..Len(entries) |->
                           IF entries[k].attr.type # "customField"
                           THEN getPropertyType(entries[k].attr).diags ELSE <<>>])

(***************************************************************************)
(* The main function: sorting and rendering.                               *)
(***************************************************************************)
\* collation of String.prototype.localeCompare (ICU root rules) on the
\* model's alphabet: punctuation before letters, letters without regard to
\* case; case breaks the ties over the whole string, lower case first
PrimaryWeight(c) ==
    CASE c = "-" -> 1
      [] c = "." -> 2
      [] c \in {"a", "A"} -> 11
      [] c \in {"b", "B"} -> 12
      [] c \in {"c", "C"} -> 13
      [] OTHER -> 0

TertiaryWeight(c) == IF c \in {"A", "B", "C"} THEN 1 ELSE 0

RECURSIVE CompareSeq(_, _)
\* lexicographic comparison of two sequences of numbers: -1, 0 or 1
CompareSeq(x, y) ==
    IF x = <<>> /\ y = <<>> THEN 0
    ELSE IF x = <<>> THEN -1
    ELSE IF y = <<>> THEN 1
    ELSE IF Head(x) < Head(y) THEN -1
    ELSE IF Head(x) > Head(y) THEN 1
    ELSE CompareSeq(Tail(x), Tail(y))

localeCompare(a, b) ==
    LET p == CompareSeq([k \in 1..Len(a) |-> PrimaryWeight(a[k])],
                        [k \in 1..Len(b) |-> PrimaryWeight(b[k])])
    IN  IF p # 0 THEN p
        ELSE CompareSeq([k \in 1..Len(a) |-> TertiaryWeight(a[k])],
                        [k \in 1..Len(b) |-> TertiaryWeight(b[k])])

RECURSIVE Insert(_, _)
\* x into the sorted s, behind every element that does not compare greater
Insert(s, x) ==
    IF s = <<>> THEN << x >>
    ELSE IF localeCompare(Last(s).interfaceName, x.interfaceName) <= 0 THEN Append(s, x)
    ELSE Append(Insert(SubSeq(s, 1, Len(s) - 1), x), Last(s))

RECURSIVE SortedPrefix(_, _)
SortedPrefix(s, n) == IF n = 0 THEN <<>> ELSE Insert(SortedPrefix(s, n - 1), s[n])

SortByNameSkipped(s) == s

\* Array.prototype.sort (stable) with the comparator of line 46
SortByName(s) == SortedPrefix(s, Len(s))

RECURSIVE Dedupe(_)
\* Array.from(new Set(s)): first occurrences, in order
Dedupe(s) ==
    IF s = <<>> THEN <<>>
    ELSE LET d == Dedupe(SubSeq(s, 1, Len(s) - 1))
         IN  IF \E k \in 1..Len(d) : d[k] = Last(s) THEN d ELSE Append(d, Last(s))

\* PARENTS_INTERFACES, lines 29-38
PARENTS_INTERFACES(ii) ==
    << "interface DraftAndPublish {\n  /**\n   * If set to a date, content will be published, at creation, with the corresponding publication date.\n   * If not set (undefined), content will be published, at creation, with the date corresponding to the content creation date.\n   * If set to null, content will be created in Draft.\n   **/\n  publishedAt?: Date | null;\n}\n\n" >>

usedParentInterfacesCodeNoSet(is) ==
    LET all == Flatten([k \in 1..Len(is) |-> is[k].implementedInterfaces])
    IN  [k \in 1..Len(all) |-> PARENTS_INTERFACES(all[k])]

\* line 43
usedParentInterfacesCode(is) ==
    LET used == Dedupe(Flatten([k \in 1..Len(is) |-> is[k].implementedInterfaces]))
    IN  [k \in 1..Len(used) |-> PARENTS_INTERFACES(used[k])]

\* line 50, one property
PropertyCode(p) ==
    << "  ", p.name >> \o (IF p.required THEN <<>> ELSE << "?" >>)
    \o << ": " >> \o p.type \o << ";" >>

\* lines 48-51
InterfaceCode(i) ==
    << "export interface " >> \o i.interfaceName
    \o (IF Len(i.implementedInterfaces) > 0
        THEN << " extends " >> \o Join(i.implementedInterfaces, << ", " >>)
        ELSE <<>>)
    \o << " {\n" >>
    \o Join([k \in 1..Len(i.properties) |-> PropertyCode(i.properties[k])], << "\n" >>)
    \o << "\n}\n\n" >>

\* .filter(i => i.interfaceName)
FilterNamed(s) == SelectSeq(s, LAMBDA i : Truthy(i.interfaceName))

\* lines 44-51
interfacesToExportCode(is) ==
    LET sorted == SortByName(FilterNamed(is))
    IN  [k \in 1..Len(sorted) |-> InterfaceCode(sorted[k])]

(***************************************************************************)
(* Inputs: attribute descriptors, schema documents, extension modules.     *)
(***************************************************************************)
Attr(type) ==
    [type |-> type, required |-> FALSE, enum |-> <<>>, relation |-> "",
     multiple |-> FALSE, component |-> <<>>, repeatable |-> FALSE,
     components |-> <<>>, customField |-> <<>>, options |-> NoOptions]

\* the fixed enumeration of attribute kinds, and two kinds the code does not know
SimpleKinds ==
    {"integer", "decimal", "biginteger", "float", "string", "text", "email",
     "richtext", "password", "uid", "date", "time", "datetime", "boolean", "json"}
UnknownKinds == {"blocks", "timestamp"}

\* names of component categories and of components
Categories == { << "a" >>, << "a", "-", "b" >>, << "c" >> }
ComponentNames == { << "b" >>, << "b", "-", "c" >>, << "c" >> }
ComponentUID(category, name) == category \o << "." >> \o name
ComponentUIDs == {ComponentUID(c, n) : c \in Categories, n \in ComponentNames}

\* custom field identifiers
CKEditor == << "ckeditor5", ".", "CKEditor" >>
MultiSelectField == << "multi-select", ".", "multi-select" >>
ColorPicker == << "color-picker", ".", "color" >>
CustomFieldIds ==
    { << "plugin::" >> \o CKEditor, << "plugin::" >> \o MultiSelectField,
      MultiSelectField, << "plugin::" >> \o ColorPicker }

OptionValues ==
    { NoOptions, Options(<<>>), Options(<< << "x" >> >>),
      Options(<< << "x" >>, << "y", ":", "z" >> >>) }

EnumValues == { <<>>, << << "a" >> >>, << << "a" >>, << "b" >>, << "c" >> >> }

AttrDomain ==
    {Attr(t) : t \in SimpleKinds \cup UnknownKinds}
    \cup {[Attr("enumeration") EXCEPT !.enum = e] : e \in EnumValues}
    \cup {[Attr("relation") EXCEPT !.relation = r] :
            r \in {"oneToOne", "oneToMany", "manyToOne", "manyToMany", "morphToMany"}}
    \cup {[Attr("media") EXCEPT !.multiple = m] : m \in BOOLEAN}
    \cup {[Attr("component") EXCEPT !.component = u, !.repeatable = r] :
            u \in ComponentUIDs, r \in BOOLEAN}
    \cup {[Attr("dynamiczone") EXCEPT !.components = cs] :
            cs \in {<<>>} \cup {<< u >> : u \in ComponentUIDs}
                   \cup {<< u, v >> : u \in ComponentUIDs, v \in ComponentUIDs}}
    \cup {[Attr("customField") EXCEPT !.customField = i, !.options = o] :
            i \in CustomFieldIds, o \in OptionValues}

\* the two places extension modules are kept in
RelativeExtensionDirectory == Rel(<< << "custom-field" >> >>)
AbsoluteExtensionDirectory == Abs(<< << "ext" >> >>)

ModulesIn(dir) ==
    { [path |-> Abs(dir.segs \o << CKEditor \o << ".js" >> >>), exports |-> "ckeditor5"],
      [path |-> Abs(dir.segs \o << MultiSelectField \o << ".js" >> >>), exports |-> "multiSelect"],
      [path |-> Abs(dir.segs \o << ColorPicker \o << ".js" >> >>), exports |-> "object"] }

ModuleSets ==
    { {},
      ModulesIn(pathResolve(cwd, RelativeExtensionDirectory)),
      ModulesIn(AbsoluteExtensionDirectory) }

Entry(name, attr) == [name |-> name, attr |-> attr]
Required(attr) == [attr EXCEPT !.required = TRUE]

Schema(singularName, present, draftAndPublish, attributes) ==
    [info |-> [singularName |-> singularName],
     options |-> [present |-> present, draftAndPublish |-> draftAndPublish],
     attributes |-> attributes]

ApiPath(dir) ==
    Abs(<< << "work" >>, << "src" >>, << "api" >>, dir, << "content-types" >>, dir,
           << "schema", ".json" >> >>)
ComponentPath(dirs, name) ==
    Abs(<< << "work" >>, << "src" >>, << "components" >> >> \o dirs \o << name \o << ".json" >> >>)

File(path, schema) == [path |-> path, parseable |-> TRUE, schema |-> schema]
NotJson(path) ==
    [path |-> path, parseable |-> FALSE, schema |-> Schema(undefined, FALSE, FALSE, <<>>)]

\* content types found under src/api
ApiLibrary ==
    { File(ApiPath(<< "a", "b" >>),
           Schema(<< "a", "b" >>, TRUE, TRUE,
                  << Entry("title", Required(Attr("string"))),
                     Entry("body", [Attr("customField") EXCEPT
                                      !.customField = << "plugin::" >> \o CKEditor]),
                     Entry("tags", [Attr("customField") EXCEPT
                                      !.customField = << "plugin::" >> \o MultiSelectField,
                                      !.options = Options(<< << "x" >>, << "y", ":", "z" >> >>)]) >>)),
      File(ApiPath(<< "a", "-", "b" >>),
           Schema(<< "a", "-", "b" >>, FALSE, FALSE,
                  << Entry("kind", [Attr("enumeration") EXCEPT !.enum = << << "a" >>, << "b" >> >>]),
                     Entry("hero", [Attr("component") EXCEPT
                                      !.component = ComponentUID(<< "a" >>, << "b", "-", "c" >>),
                                      !.repeatable = TRUE]),
                     Entry("color", [Attr("customField") EXCEPT
                                      !.customField = << "plugin::" >> \o ColorPicker]),
                     Entry("blocks", Attr("blocks")) >>)),
      File(ApiPath(<< "c" >>),
           Schema(undefined, TRUE, TRUE, << Entry("data", Attr("json")) >>)),
      NotJson(ApiPath(<< "b" >>)),
      File(ApiPath(<< "b" >>  \o << "-", "c" >>),
           Schema(<< "b" >>, TRUE, TRUE,
                  << Entry("tags", [Attr("customField") EXCEPT !.customField = MultiSelectField]),
                     Entry("owner", Required([Attr("relation") EXCEPT !.relation = "manyToOne"])) >>)) }

\* components found under src/components
ComponentLibrary ==
    { File(ComponentPath(<< << "a" >> >>, << "b" >>),
           Schema(undefined, FALSE, FALSE, << Entry("text", Required(Attr("text"))) >>)),
      File(ComponentPath(<< << "a", "-", "b" >> >>, << "c" >>),
           Schema(undefined, TRUE, FALSE,
                  << Entry("image", [Attr("media") EXCEPT !.multiple = TRUE]),
                     Entry("zone", [Attr("dynamiczone") EXCEPT !.components =
                                      << ComponentUID(<< "a" >>, << "b" >>),
                                         ComponentUID(<< "a", "-", "b" >>, << "c" >>) >>]) >>)),
      File(ComponentPath(<<>>, << "c" >>),
           Schema(undefined, TRUE, TRUE, << Entry("flag", Attr("boolean")) >>)) }

\* the orders in which at most n files of a library can be discovered
Discoveries(library, n) ==
    UNION { {s \in [1..k -> library] : \A i, j \in 1..k : s[i] = s[j] => i = j} : k \in 0..n }

Disks ==
    { [hasSrc |-> src, hasApi |-> api, hasComponents |-> comp,
       api |-> a, components |-> c, modules |-> m] :
         src \in BOOLEAN, api \in BOOLEAN, comp \in BOOLEAN,
         a \in Discoveries(ApiLibrary, MaxApiFiles),
         c \in Discoveries(ComponentLibrary, MaxComponentFiles),
         m \in ModuleSets }

\* a directory that is missing holds nothing
WellFormedDisk(d) ==
    /\ d.hasApi => d.hasSrc
    /\ d.hasComponents => d.hasSrc
    /\ ~d.hasApi => d.api = <<>>
    /\ ~d.hasComponents => d.components = <<>>

OptionSets ==
    { [out |-> o, customFieldsExtensionDirectory |-> e] :
        o \in BOOLEAN, e \in {RelativeExtensionDirectory, AbsoluteExtensionDirectory} }

NoResult == [type |-> <<>>, diags |-> <<>>]

(***************************************************************************)
(* The run of the program.                                                 *)
(***************************************************************************)
Init ==
    /\ disk \in {d \in Disks : WellFormedDisk(d)}
    /\ options \in OptionSets
    /\ pc = "getSrcPath"
    /\ exitCode = -1
    /\ outFile = "undefined"
    /\ apiFiles = <<>>
    /\ componentsFiles = <<>>
    /\ interfaces = <<>>
    /\ written = <<>>
    /\ stderr = <<>>
    /\ mAttr = Attr("string")
    /\ mOut = NoResult

\* notStrapiRootDirectoryError, lines 166-169: the message, then
\* process.exit(1); --strapi-root-directory is the working directory
notStrapiRootDirectoryError ==
    /\ stderr' = Append(stderr, Diag("not a Strapi root directory", <<>>, cwd))
    /\ exitCode' = 1
    /\ pc' = "exited"

\* line 23, getSrcPath (lines 171-177)
GetSrcPath ==
    /\ pc = "getSrcPath"
    /\ IF ~disk.hasSrc
       THEN notStrapiRootDirectoryError
       ELSE pc' = "createWriteStream" /\ UNCHANGED <<stderr, exitCode>>
    /\ UNCHANGED <<disk, options, outFile, apiFiles, componentsFiles, interfaces,
                   written, mAttr, mOut>>

\* line 25: the file of --out is opened for writing, which creates or empties it
CreateWriteStream ==
    /\ pc = "createWriteStream"
    /\ outFile' = IF options.out THEN "open" ELSE "undefined"
    /\ pc' = "getApiFiles"
    /\ UNCHANGED <<disk, options, exitCode, apiFiles, componentsFiles, interfaces,
                   written, stderr, mAttr, mOut>>

\* globSync(pattern, {cwd: dir, absolute: true}): the files found, none (and no
\* exception) when dir does not exist
globSync(exists, found) ==
    IF exists THEN [k \in 1..Len(found) |-> found[k].path] ELSE <<>>

\* line 26, getApiFiles (lines 179-186); globSync does not throw, the catch
\* is never entered
GetApiFiles ==
    /\ pc = "getApiFiles"
    /\ apiFiles' = globSync(disk.hasApi, disk.api)
    /\ pc' = "getComponentsFiles"
    /\ UNCHANGED <<disk, options, exitCode, outFile, componentsFiles, interfaces,
                   written, stderr, mAttr, mOut>>

\* line 27, getComponentsFiles (lines 188-195)
GetComponentsFiles ==
    /\ pc = "getComponentsFiles"
    /\ componentsFiles' = globSync(disk.hasComponents, disk.components)
    /\ pc' = "computeInterfaces"
    /\ UNCHANGED <<disk, options, exitCode, outFile, apiFiles, interfaces,
                   written, stderr, mAttr, mOut>>

\* lines 41 and 58-90: the map over the files runs every callback up to its
\* first await; a callback that throws leaves a rejected promise
ComputeInterfaces ==
    /\ pc = "computeInterfaces"
    /\ LET files == apiFiles \o componentsFiles
       IN  /\ interfaces' = [k \in 1..Len(files) |-> StartFile(files[k])]
           /\ stderr' = stderr \o Flatten([k \in 1..Len(files) |-> StartFileDiags(files[k])])
    /\ pc' = "await"
    /\ UNCHANGED <<disk, options, exitCode, outFile, apiFiles, componentsFiles,
                   written, mAttr, mOut>>

SettleInCompletionOrder(properties, j, type) ==
    LET first == CHOOSE k \in 1..Len(properties) :
                   /\ ~properties[k].resolved
                   /\ \A l \in 1..(k - 1) : properties[l].resolved
    IN  [properties EXCEPT ![first].resolved = TRUE, ![first].type = type]

\* line 73, Promise.all: a result takes the place of its promise, whenever
\* it arrives
SettleProperty(properties, j, type) ==
    [properties EXCEPT ![j].resolved = TRUE, ![j].type = type]

\* lines 149-159: one pending module load settles, in any order; the
\* callback of the file resumes once all its properties are there
ResolveCustomField(i, j) ==
    /\ pc = "await"
    /\ interfaces[i].state = "pending"
    /\ ~interfaces[i].properties[j].resolved
    /\ LET r == getPropertyType(interfaces[i].properties[j].attr)
           properties == SettleProperty(interfaces[i].properties, j, r.type)
       IN  /\ interfaces' = [interfaces EXCEPT
                               ![i].properties = properties,
                               ![i].state = IF \A k \in 1..Len(properties) : properties[k].resolved
                                            THEN "fulfilled" ELSE "pending"]
           /\ stderr' = stderr \o r.diags
    /\ UNCHANGED <<disk, options, pc, exitCode, outFile, apiFiles, componentsFiles,
                   written, mAttr, mOut>>

\* line 41: Promise.all rejects with the first rejection, nothing catches it:
\* the process dies of the unhandled rejection
UnhandledRejection ==
    /\ pc = "await"
    /\ \E i \in 1..Len(interfaces) : interfaces[i].state = "rejected"
    /\ pc' = "crashed"
    /\ exitCode' = 1
    /\ UNCHANGED <<disk, options, outFile, apiFiles, componentsFiles, interfaces,
                   written, stderr, mAttr, mOut>>

\* lines 43-55: every promise is fulfilled; the blocks are written in one go
WriteOutput ==
    /\ pc = "await"
    /\ \A i \in 1..Len(interfaces) : interfaces[i].state = "fulfilled"
    /\ written' = written \o usedParentInterfacesCode(interfaces)
                          \o interfacesToExportCode(interfaces)
    /\ pc' = "done"
    /\ exitCode' = 0
    /\ UNCHANGED <<disk, options, outFile, apiFiles, componentsFiles, interfaces,
                   stderr, mAttr, mOut>>

Next ==
    \/ GetSrcPath
    \/ CreateWriteStream
    \/ GetApiFiles
    \/ GetComponentsFiles
    \/ ComputeInterfaces
    \/ \E i \in 1..Len(interfaces) :
         \E j \in 1..Len(interfaces[i].properties) : ResolveCustomField(i, j)
    \/ UnhandledRejection
    \/ WriteOutput

Spec == Init /\ [][Next]_vars

(***************************************************************************)
(* getPropertyType on its own, over every attribute descriptor.            *)
(***************************************************************************)
MapInit ==
    /\ disk \in {d \in Disks : d.hasSrc /\ ~d.hasApi /\ ~d.hasComponents /\ WellFormedDisk(d)}
    /\ options \in {o \in OptionSets : ~o.out}
    /\ pc = "mapType"
    /\ exitCode = -1
    /\ outFile = "undefined"
    /\ apiFiles = <<>>
    /\ componentsFiles = <<>>
    /\ interfaces = <<>>
    /\ written = <<>>
    /\ stderr = <<>>
    /\ mAttr \in AttrDomain
    /\ mOut = NoResult

MapType ==
    /\ pc = "mapType"
    /\ mOut' = getPropertyType(mAttr)
    /\ pc' = "mapped"
    /\ UNCHANGED <<disk, options, exitCode, outFile, apiFiles, componentsFiles,
                   interfaces, written, stderr, mAttr>>

MapNext == MapType

MapSpec == MapInit /\ [][MapNext]_vars

(***************************************************************************)
(* Reading the run and the written text.                                   *)
(***************************************************************************)
Files == apiFiles \o componentsFiles
Started == pc \in {"await", "done", "crashed"}
FileIndexes == IF Started THEN 1..Len(Files) ELSE {}
SchemaOf(i) == ReadFile(Files[i]).schema
Parseable(i) == ReadFile(Files[i]).parseable
SomeFileUnparseable == \E i \in 1..Len(Files) : ~Parseable(i)

\* a schema with no singular name, in a file that is no component's
Malformed(i) ==
    /\ Parseable(i)
    /\ ~Truthy(SchemaOf(i).info.singularName)
    /\ ~(Truthy(ComponentsExec(Files[i]).category) /\ Truthy(ComponentsExec(Files[i]).name))
Named(i) == Parseable(i) /\ ~Malformed(i)
DraftAndPublishSet(i) ==
    Parseable(i) /\ SchemaOf(i).options.present /\ SchemaOf(i).options.draftAndPublish

DraftAndPublishDeclaration == PARENTS_INTERFACES(<< "DraftAndPublish" >>)
IsExport(b) == b # <<>> /\ Head(b) = "export interface "
Exports == {k \in 1..Len(written) : IsExport(written[k])}
Markers == {k \in 1..Len(written) : written[k] = DraftAndPublishDeclaration}
EndOfName(b) ==
    CHOOSE k \in 2..Len(b) :
      /\ b[k] \in {" extends ", " {\n"}
      /\ \A l \in 2..(k - 1) : b[l] \notin {" extends ", " {\n"}
NameOf(b) == SubSeq(b, 2, EndOfName(b) - 1)
ExtendsDraftAndPublish(b) ==
    \E k \in 1..(Len(b) - 1) : b[k] = " extends " /\ b[k + 1] = "DraftAndPublish"
RECURSIVE PropertyNamesOf(_)
PropertyNamesOf(b) ==
    IF Len(b) < 2 THEN <<>>
    ELSE IF Head(b) = "  " THEN << b[2] >> \o PropertyNamesOf(Tail(b))
    ELSE PropertyNamesOf(Tail(b))
DeclaredNames(i) ==
    [k \in 1..Len(SchemaOf(i).attributes) |-> SchemaOf(i).attributes[k].name]

\* the identifier without a leading plugin::, and the module path expected
Stripped(id) == IF id # <<>> /\ Head(id) = "plugin::" THEN SubSeq(id, 2, Len(id)) ELSE id
ExpectedModulePath(id) ==
    LET dir == options.customFieldsExtensionDirectory
    IN  Abs((IF dir.abs THEN dir.segs ELSE cwd.segs \o dir.segs)
            \o << Stripped(id) \o << ".js" >> >>)
ModuleAt(path) == {m \in disk.modules : m.path = path}
ExportsFunction(path) == \E m \in ModuleAt(path) : m.exports \in {"ckeditor5", "multiSelect"}
\* the call f(O) of the function exported at path
CallAt(path, opts) == CallExport((CHOOSE m \in ModuleAt(path) : TRUE).exports, opts)
Unresolvable(a) ==
    \/ ModuleAt(ExpectedModulePath(a.customField)) = {}
    \/ ~CallAt(ExpectedModulePath(a.customField), a.options).ok
Fallback(id) == << "any //FIXME: missing custom field plugin for " >> \o Stripped(id)
MissingDiag(id) == Diag("Missing custom field plugin", Stripped(id), ExpectedModulePath(id))
InStderr(d) == \E k \in 1..Len(stderr) : stderr[k] = d

(***************************************************************************)
(* C1: getPropertyType yields, for every attribute descriptor of a kind of *)
(* the fixed enumeration or of an unrecognized kind, one non-empty type    *)
(* expression; an unrecognized kind yields 'any' and a diagnostic naming   *)
(* the kind.                                                               *)
(***************************************************************************)
C1_TypeIsTotal ==
    pc = "mapped" =>
      /\ Len(mOut.type) > 0
      /\ mAttr.type \in UnknownKinds =>
           /\ mOut.type = << "any" >>
           /\ mOut.diags = << Diag("Type not handled", << mAttr.type >>, NoPath) >>
      /\ mAttr.type \in SimpleKinds
                        \cup {"enumeration", "relation", "media", "component", "dynamiczone"}
           => mOut.diags = <<>>

C1_Witness ==
    /\ pc = "mapped"
    /\ mAttr.type = "blocks"
    /\ mOut.type = << "any" >>
    /\ Len(mOut.diags) = 1

(***************************************************************************)
(* C2: when the Strapi root holds no src/api directory (src may exist),    *)
(* the run ends at once with a non-zero exit code, nothing is written and  *)
(* no output file is opened.                                               *)
(***************************************************************************)
C2_NoApiExitsWithoutOutput ==
    ~disk.hasApi =>
      /\ pc \in {"getSrcPath", "createWriteStream", "getApiFiles", "exited"}
      /\ pc = "exited" => exitCode = 1
      /\ written = <<>>
      /\ outFile = "undefined"

(***************************************************************************)
(* C3: a custom field whose module cannot be resolved gets the type        *)
(* 'any //FIXME: missing custom field plugin for <identifier>', the        *)
(* identifier without its leading plugin::, a diagnostic with identifier   *)
(* and module path is written, and the run is not aborted by it: every     *)
(* other property and every schema's interface is written.                 *)
(***************************************************************************)
C3_UnresolvedCustomFieldFallsBack ==
    /\ pc = "crashed" => SomeFileUnparseable
    /\ \A i \in FileIndexes : \A j \in 1..Len(interfaces[i].properties) :
         LET p == interfaces[i].properties[j]
         IN  (p.attr.type = "customField" /\ p.resolved /\ Unresolvable(p.attr)) =>
               /\ p.type = Fallback(p.attr.customField)
               /\ InStderr(MissingDiag(p.attr.customField))
               /\ interfaces[i].state # "rejected"
    /\ pc = "done" =>
         \A i \in FileIndexes : Named(i) =>
           \E k \in Exports :
             /\ NameOf(written[k]) = interfaces[i].interfaceName
             /\ PropertyNamesOf(written[k]) = DeclaredNames(i)
             /\ written[k] = InterfaceCode(interfaces[i])

C3_Witness ==
    /\ pc = "done"
    /\ Cardinality(Exports) >= 2
    /\ \E i \in FileIndexes : \E j \in 1..Len(interfaces[i].properties) :
         /\ interfaces[i].properties[j].attr.type = "customField"
         /\ Head(interfaces[i].properties[j].attr.customField) = "plugin::"
         /\ Unresolvable(interfaces[i].properties[j].attr)
         /\ Len(interfaces[i].properties) >= 2

(***************************************************************************)
(* C4, as claimed: when a module exists at the expected path and exports a *)
(* one-argument function f, the type expression is the string f(O), and    *)
(* neither the fallback nor the diagnostic is produced.                    *)
(***************************************************************************)
C4_ExistingFunctionIsUsed ==
    (pc = "mapped" /\ mAttr.type = "customField"
       /\ ExportsFunction(ExpectedModulePath(mAttr.customField))) =>
      /\ CallAt(ExpectedModulePath(mAttr.customField), mAttr.options).ok
      /\ mOut.type = CallAt(ExpectedModulePath(mAttr.customField), mAttr.options).value
      /\ mOut.type # Fallback(mAttr.customField)
      /\ mOut.diags = <<>>

(***************************************************************************)
(* C4, amended: when a module exists at the expected path and exports a    *)
(* one-argument function f whose call f(O) returns, the type expression is *)
(* the returned string, verbatim, without fallback or diagnostic.          *)
(***************************************************************************)
C4_ReturningFunctionIsUsed ==
    (pc = "mapped" /\ mAttr.type = "customField"
       /\ ExportsFunction(ExpectedModulePath(mAttr.customField))
       /\ CallAt(ExpectedModulePath(mAttr.customField), mAttr.options).ok) =>
      /\ mOut.type = CallAt(ExpectedModulePath(mAttr.customField), mAttr.options).value
      /\ mOut.type # Fallback(mAttr.customField)
      /\ mOut.diags = <<>>

C4_Witness ==
    /\ pc = "mapped"
    /\ mAttr.type = "customField"
    /\ options.customFieldsExtensionDirectory.abs
    /\ Head(mAttr.customField) = "plugin::"
    /\ ExportsFunction(ExpectedModulePath(mAttr.customField))
    /\ mOut.type = << "(", backtick, "x", backtick, " | ", backtick, "z", backtick, ")[]" >>

(***************************************************************************)
(* C5: every exported interface of a schema with draftAndPublish set is    *)
(* rendered with 'extends DraftAndPublish' (and no other is); the          *)
(* DraftAndPublish declaration is written once when a schema sets          *)
(* draftAndPublish, however many do, never otherwise, and before every     *)
(* exported interface.                                                     *)
(***************************************************************************)
C5_DraftAndPublishOnce ==
    pc = "done" =>
      /\ Cardinality(Markers) = IF \E i \in FileIndexes : DraftAndPublishSet(i) THEN 1 ELSE 0
      /\ \A m \in Markers : \A k \in Exports : m < k
      /\ Markers \cup Exports = 1..Len(written)
      /\ \A i \in FileIndexes : Named(i) =>
           \A e \in BOOLEAN :
             Cardinality({k \in Exports :
                            /\ NameOf(written[k]) = interfaces[i].interfaceName
                            /\ ExtendsDraftAndPublish(written[k]) = e})
             = Cardinality({l \in FileIndexes :
                              /\ Named(l)
                              /\ interfaces[l].interfaceName = interfaces[i].interfaceName
                              /\ DraftAndPublishSet(l) = e})

C5_Witness ==
    /\ pc = "done"
    /\ Cardinality({i \in FileIndexes : DraftAndPublishSet(i)}) >= 2
    /\ Cardinality({k \in Exports : ExtendsDraftAndPublish(written[k])}) >= 2
    /\ written[1] = DraftAndPublishDeclaration

(***************************************************************************)
(* C6, as claimed: the exported interfaces are written in ascending order  *)
(* of their names, character code by character code: a name that is less   *)
(* than another is written before it.                                      *)
(***************************************************************************)
CharCode(c) ==
    CASE c = "-" -> 45
      [] c = "." -> 46
      [] c = "A" -> 65
      [] c = "B" -> 66
      [] c = "C" -> 67
      [] c = "a" -> 97
      [] c = "b" -> 98
      [] c = "c" -> 99
      [] OTHER -> 0
CodeUnitCompare(a, b) ==
    CompareSeq([k \in 1..Len(a) |-> CharCode(a[k])], [k \in 1..Len(b) |-> CharCode(b[k])])

C6_AscendingByCharCode ==
    \A k \in Exports : \A l \in Exports :
      CodeUnitCompare(NameOf(written[k]), NameOf(written[l])) < 0 => k < l

(***************************************************************************)
(* C6, amended: the exported interfaces are written in ascending order of  *)
(* their names under localeCompare, whatever the order of discovery: a     *)
(* name that collates before another is written before it.                 *)
(***************************************************************************)
C6_AscendingByCollation ==
    \A k \in Exports : \A l \in Exports :
      localeCompare(NameOf(written[k]), NameOf(written[l])) < 0 => k < l

C6_Witness ==
    /\ pc = "done"
    /\ \E i \in FileIndexes : \E j \in FileIndexes :
         /\ i < j
         /\ Named(i) /\ Named(j)
         /\ localeCompare(interfaces[j].interfaceName, interfaces[i].interfaceName) < 0
         /\ CodeUnitCompare(interfaces[j].interfaceName, interfaces[i].interfaceName) < 0
    /\ Cardinality(Exports) >= 2

(***************************************************************************)
(* C7: a schema with no singular name in a file that is no component's is  *)
(* malformed: a diagnostic names its file, no interface block (named,      *)
(* empty or anonymous) is written for it, it does not end the run, and the *)
(* interfaces of the other schemas are written.                            *)
(***************************************************************************)
C7_MalformedSchemaIsSkipped ==
    /\ \A i \in FileIndexes : Malformed(i) =>
         /\ InStderr(Diag("Unexpected schema", <<>>, Files[i]))
         /\ interfaces[i].state # "rejected"
    /\ pc = "crashed" => SomeFileUnparseable
    /\ pc = "done" =>
         /\ Cardinality(Exports) = Cardinality({i \in FileIndexes : Named(i)})
         /\ \A k \in Exports : NameOf(written[k]) \notin {<<>>, << "undefined" >>}
         /\ \A i \in FileIndexes : Named(i) =>
              \E k \in Exports : NameOf(written[k]) = interfaces[i].interfaceName

C7_Witness ==
    /\ pc = "done"
    /\ \E i \in FileIndexes : Malformed(i)
    /\ \E i \in FileIndexes : Named(i)
    /\ Cardinality(Exports) = 1

(***************************************************************************)
(* C8: when a schema file is not JSON, the failure stays with that file:   *)
(* the run goes on and the interface of every other, parseable schema      *)
(* file is written.                                                        *)
(***************************************************************************)
C8_UnparseableFileIsConfined ==
    (pc \in {"done", "crashed"} /\ SomeFileUnparseable) =>
      /\ pc = "done"
      /\ \A i \in FileIndexes : Named(i) =>
           \E k \in Exports : NameOf(written[k]) = interfaces[i].interfaceName

(***************************************************************************)
(* C9: the type name of a reference to the component of category C and     *)
(* name N, in a component attribute (with [] when repeatable) and in each  *)
(* member of a dynamic zone, is the interface name derived for the file    *)
(* components/C/N.json.                                                    *)
(***************************************************************************)
ComponentInterfaceName(uid) ==
    LET cn == CHOOSE cn \in Categories \X ComponentNames : ComponentUID(cn[1], cn[2]) = uid
    IN  interfaceName(ComponentPath(<< cn[1] >>, cn[2]), Schema(undefined, FALSE, FALSE, <<>>))

C9_ReferenceIsInterfaceName ==
    pc = "mapped" =>
      /\ mAttr.type = "component" =>
           mOut.type = ComponentInterfaceName(mAttr.component)
                       \o (IF mAttr.repeatable THEN << "[]" >> ELSE <<>>)
      /\ mAttr.type = "dynamiczone" =>
           mOut.type = << "(" >>
                       \o Join([k \in 1..Len(mAttr.components) |->
                                  ComponentInterfaceName(mAttr.components[k])], << " | " >>)
                       \o << ")[]" >>

(***************************************************************************)
(* C10: nothing is written before every file and every custom field load   *)
(* has completed; the written blocks are those of a run that completes the *)
(* loads one after the other in declaration order, whatever order they     *)
(* complete in; the properties of an interface are in declared order.      *)
(***************************************************************************)
InOrder(file) ==
    LET f == StartFile(file)
    IN  [f EXCEPT !.properties =
           [k \in 1..Len(f.properties) |->
              [f.properties[k] EXCEPT !.resolved = TRUE,
                                      !.type = getPropertyType(f.properties[k].attr).type]]]
InOrderInterfaces == [k \in 1..Len(Files) |-> InOrder(Files[k])]

C10_OutputIgnoresCompletionOrder ==
    /\ written # <<>> =>
         /\ pc = "done"
         /\ \A i \in FileIndexes :
              /\ interfaces[i].state = "fulfilled"
              /\ \A j \in 1..Len(interfaces[i].properties) : interfaces[i].properties[j].resolved
    /\ pc = "done" =>
         /\ written = usedParentInterfacesCode(InOrderInterfaces)
                      \o interfacesToExportCode(InOrderInterfaces)
         /\ \A i \in FileIndexes : Named(i) =>
              \E k \in Exports :
                /\ NameOf(written[k]) = interfaces[i].interfaceName
                /\ PropertyNamesOf(written[k]) = DeclaredNames(i)

C10_Witness ==
    /\ pc = "done"
    /\ Files = << ApiPath(<< "a", "b" >>) >>
    /\ DeclaredNames(1) = << "title", "body", "tags" >>
    /\ \E x \in 1..Len(stderr) : \E y \in 1..Len(stderr) :
         /\ x < y
         /\ stderr[x] = MissingDiag(<< "plugin::" >> \o MultiSelectField)
         /\ stderr[y] = MissingDiag(<< "plugin::" >> \o CKEditor)
    /\ Len(written) = 2

====
